---- MODULE Spec2Model ----
(***************************************************************************)
(* Pellet Planner (src/src/PelletPlanner.jsx, "Master Recipe Mode (V6)").  *)
(*                                                                         *)
(* The React component keeps three pieces of state: inputs (the form),     *)
(* plan and warnings (written only by the logic-engine effect).  Every     *)
(* setInputs call commits a new inputs object, after which the two         *)
(* effects run: the persistence effect (localStorage.setItem) and the      *)
(* logic engine.  The result is rendered; rendering formats the plan's     *)
(* timestamps.                                                             *)
(*                                                                         *)
(* Number representation.                                                  *)
(*   weight          half pounds (the weight field has step 0.5)           *)
(*   rate            hundredths of an hour per pound                       *)
(*   multiplier      hundredths                                            *)
(*   stallFactor     hundredths; the wrap timing factor is in thousandths  *)
(*   durations       quarter milliseconds ("q", 240000 q = 1 minute),      *)
(*                   which is fine enough to hold every product of the     *)
(*                   catalog's factors exactly                             *)
(*   Date            whole milliseconds since 2024-01-01T00:00 local time  *)
(* JavaScript's floating point products are taken as the exact rational    *)
(* products.  NaN, Infinity, the Invalid Date and JSON's null are the      *)
(* sentinels below.  date-fns is taken at its version 3/4 behaviour:       *)
(* addMinutes(d, m) is new Date(+d + m * 60000), and the Date constructor  *)
(* clips the time value to a whole number of milliseconds.                 *)
(***************************************************************************)
EXTENDS Integers, Sequences, FiniteSets, TLC

VARIABLES inputs, plan, warnings, saved, now, showSettings, phase, edits

vars == <<inputs, plan, warnings, saved, now, showSettings, phase, edits>>

---------------------------------------------------------------------------
(* JavaScript values that are not ordinary numbers *)

NaN == -900000001

Infinity == 900000002

InvalidDate == -900000003

Null == -900000004

\* -1e14, the number parseInt returns for a minus sign and fifteen digits: as
\* a number of minutes it is more than the 8.64e15 milliseconds a Date can be
\* away from 1970, and so is its negation, which is written the same
Huge == -900000005

IsFinite(x) == x # NaN /\ x # Infinity

\* the amount, in minutes, leaves a Date within the Date's range
FitsDate(x) == IsFinite(x) /\ x # Huge

\* ToNumber on a stored field: null counts as 0 in arithmetic and comparisons
ToNumber(x) == IF x = Null THEN 0 ELSE x

\* !x for a number field
Falsy(x) == x = NaN \/ x = Null \/ x = 0

\* Math.floor(a / b) for finite a and finite b # 0
FloorDiv(a, b) == IF b > 0 THEN a \div b ELSE (0 - a) \div (0 - b)

---------------------------------------------------------------------------
(* Static catalog *)

MeatTypes == {"brisket", "porkButt", "ribs", "turkey", "chicken"}

MEAT_PROFILES ==
  [ brisket |->
      [ defaultWeight |-> 24,
        tempProfiles |-> (225 :> 150) @@ (250 :> 125) @@ (275 :> 100),
        rest |-> [default |-> 120, min |-> 60, maxHold |-> 300],
        stallFactor |-> 65,
        defaultTargetTemp |-> 203,
        spritz |-> [recommended |-> TRUE, startAfter |-> 120, interval |-> 60,
                    type |-> "Apple Cider Vinegar"] ],
    porkButt |->
      [ defaultWeight |-> 16,
        tempProfiles |-> (225 :> 150) @@ (250 :> 110) @@ (275 :> 100),
        rest |-> [default |-> 45, min |-> 30, maxHold |-> 300],
        stallFactor |-> 60,
        defaultTargetTemp |-> 205,
        spritz |-> [recommended |-> TRUE, startAfter |-> 120, interval |-> 60,
                    type |-> "Apple Juice/Vinegar"] ],
    ribs |->
      [ defaultWeight |-> 6,
        tempProfiles |-> (225 :> 200) @@ (250 :> 175) @@ (275 :> 150),
        rest |-> [default |-> 15, min |-> 10, maxHold |-> 60],
        stallFactor |-> 50,
        defaultTargetTemp |-> 200,
        spritz |-> [recommended |-> TRUE, startAfter |-> 90, interval |-> 45,
                    type |-> "Apple Cider Vinegar"] ],
    turkey |->
      [ defaultWeight |-> 24,
        tempProfiles |-> (225 :> 75) @@ (250 :> 50) @@ (275 :> 35) @@
                         (300 :> 30) @@ (325 :> 25),
        rest |-> [default |-> 30, min |-> 20, maxHold |-> 90],
        stallFactor |-> 80,
        defaultTargetTemp |-> 165,
        spritz |-> [recommended |-> FALSE, startAfter |-> 60, interval |-> 45,
                    type |-> "Melted Butter"] ],
    chicken |->
      [ defaultWeight |-> 10,
        tempProfiles |-> (225 :> 80) @@ (250 :> 60) @@ (275 :> 50) @@
                         (325 :> 35),
        rest |-> [default |-> 15, min |-> 10, maxHold |-> 45],
        stallFactor |-> 85,
        defaultTargetTemp |-> 165,
        spritz |-> [recommended |-> FALSE, startAfter |-> 45, interval |-> 45,
                    type |-> "Melted Butter/Oil"] ] ]

WrapKeys == {"foil_pan", "foil", "paper", "none"}

WRAP_STRATEGIES ==
  [ foil_pan |-> [multiplier |-> 95],
    foil     |-> [multiplier |-> 100],
    paper    |-> [multiplier |-> 108],
    none     |-> [multiplier |-> 125] ]

IsPoultryType(type) == type = "turkey" \/ type = "chicken"

---------------------------------------------------------------------------
(* Units *)

MsPerMinute == 60000

QPerMs == 4

QPerMinute == 240000

MsPerHour == 3600000
---------------------------------------------------------------------------
(* date-fns *)

\* Math.floor(q * f / d) for d > 0, without forming the product q * f
FloorMulDiv(q, f, d) ==
  LET a == FloorDiv(q, d)
      b == q - a * d
  IN  a * f + FloorDiv(b * f, d)

\* a whole number of minutes (an inputs field) as a duration in q
Minutes(m) ==
  IF m = NaN THEN NaN
  ELSE IF m = Huge THEN Huge
  ELSE QPerMinute * ToNumber(m)

\* unary minus; the sign of an infinity is dropped, every use only asks
\* whether the amount is finite
Negate(x) == IF FitsDate(x) THEN 0 - x ELSE x

\* a variant that takes whole minutes only and drops the fraction of the amount
addMinutes_WholeMinutes(date, amount) ==
  IF date = InvalidDate \/ ~FitsDate(amount)
  THEN InvalidDate
  ELSE date + MsPerMinute * (IF amount >= 0
                             THEN amount \div QPerMinute
                             ELSE 0 - ((0 - amount) \div QPerMinute))

\* addMinutes(date, amount): new Date(+date + amount * 60000).  The amount is
\* given in q; the Date constructor drops the fraction of a millisecond, and
\* a NaN, infinite or out-of-range time value is the Invalid Date
addMinutes(date, amount) ==
  IF date = InvalidDate \/ ~FitsDate(amount)
  THEN InvalidDate
  ELSE date + FloorDiv(amount, QPerMs)

\* subMinutes(date, amount) is addMinutes(date, -amount)
subMinutes(date, amount) == addMinutes(date, Negate(amount))

IsLeapYear(y) == (y % 4 = 0 /\ y % 100 # 0) \/ y % 400 = 0

DaysInMonth(y, m) ==
  IF m = 2 THEN (IF IsLeapYear(y) THEN 29 ELSE 28)
  ELSE IF m \in {4, 6, 9, 11} THEN 30 ELSE 31

RECURSIVE DaysBeforeMonth(_, _)
DaysBeforeMonth(y, m) ==
  IF m = 1 THEN 0 ELSE DaysBeforeMonth(y, m - 1) + DaysInMonth(y, m - 1)

EpochYear == 2024

RECURSIVE DaysBeforeYear(_)
DaysBeforeYear(y) ==
  IF y = EpochYear THEN 0
  ELSE IF y > EpochYear
       THEN DaysBeforeYear(y - 1) + (IF IsLeapYear(y - 1) THEN 366 ELSE 365)
       ELSE DaysBeforeYear(y + 1) - (IF IsLeapYear(y) THEN 366 ELSE 365)

\* A serveTime string is the tuple of its fields, <<year, month, day, hour,
\* minute>>; the empty string is the empty tuple.  parseISO reads a calendar
\* date and a time in local time.  It takes a four-digit year only (no
\* additionalDigits option is passed), so the longer years a datetime-local
\* field can hold do not parse.
parseISO(s) ==
  IF Len(s) # 5 THEN InvalidDate
  ELSE IF s[1] < 0 \/ s[1] > 9999 THEN InvalidDate
  ELSE IF s[2] < 1 \/ s[2] > 12 THEN InvalidDate
  ELSE IF s[3] < 1 \/ s[3] > DaysInMonth(s[1], s[2]) THEN InvalidDate
  ELSE IF s[4] < 0 \/ s[4] > 23 \/ s[5] < 0 \/ s[5] > 59 THEN InvalidDate
  ELSE (((DaysBeforeYear(s[1]) + DaysBeforeMonth(s[1], s[2]) + s[3] - 1) * 24
          + s[4]) * 60 + s[5]) * MsPerMinute

isValid(date) == date # InvalidDate

\* differenceInHours(a, b): the difference in milliseconds over 3600000,
\* truncated toward zero
differenceInHours(a, b) ==
  IF a = InvalidDate \/ b = InvalidDate THEN NaN
  ELSE IF a - b >= 0 THEN (a - b) \div MsPerHour
       ELSE 0 - ((b - a) \div MsPerHour)

\* format(date, 'h:mm a') throws a RangeError on the Invalid Date
FormatThrows(date) == date = InvalidDate

---------------------------------------------------------------------------
(* The logic engine: src/src/PelletPlanner.jsx, the second useEffect *)

NoPlan == [isNull |-> TRUE]

NoWindow == [isNull |-> TRUE]

\* a variant that falls back to the profile's rate at 275 F
Rate_FallbackTo275(in) ==
  LET tempProfiles == MEAT_PROFILES[in.meatType].tempProfiles
  IN  IF ToNumber(in.temp) \in DOMAIN tempProfiles
      THEN tempProfiles[ToNumber(in.temp)]
      ELSE tempProfiles[275]

\* 1. Base Rate, in hundredths: the profile's rate at the set temperature,
\* 1.0 when the profile has no entry for it
Rate(in) ==
  LET tempProfiles == MEAT_PROFILES[in.meatType].tempProfiles
  IN  IF ToNumber(in.temp) \in DOMAIN tempProfiles
      THEN tempProfiles[ToNumber(in.temp)]
      ELSE 100

\* a variant that does not look at the meat type
SpatchcockQuarters_AnyMeat(in) == IF in.isSpatchcock = TRUE THEN 3 ELSE 4

\* the spatchcock modifier in quarters: 0.75 for a spatchcocked bird
SpatchcockQuarters(in) ==
  IF in.isSpatchcock = TRUE /\ IsPoultryType(in.meatType) THEN 3 ELSE 4

\* 2. baseCookHours = weight * rate (* 0.75), in 1/800 hour
BaseCookHours(in) == ToNumber(in.weight) * Rate(in) * SpatchcockQuarters(in)

\* adjustedCookHours = baseCookHours * wrapMod before the spritz tax,
\* in 1/80000 hour
WrapAdjustedHours(in) ==
  BaseCookHours(in) * WRAP_STRATEGIES[in.wrapStrategy].multiplier

\* spritzWindowMins = adjustedCookHours * 60 - spritzStart, in 1/4000 minute
SpritzWindowMins(in) ==
  IF in.spritzStart = NaN THEN NaN
  ELSE 3 * WrapAdjustedHours(in) - 4000 * ToNumber(in.spritzStart)

\* a variant that counts a started interval as a spritz (rounds up)
SpritzCount_RoundsUp(in) ==
  IF in.spritzEnabled # TRUE THEN 0
  ELSE LET w == SpritzWindowMins(in)
       IN  IF w = NaN \/ w <= 0 THEN 0
           ELSE IF in.spritzInterval = NaN THEN NaN
           ELSE IF ToNumber(in.spritzInterval) = 0 THEN Infinity
           ELSE 0 - FloorDiv(0 - w, 4000 * ToNumber(in.spritzInterval))

\* 3. Spritz Tax: the number of spritzes
SpritzCount(in) ==
  IF in.spritzEnabled # TRUE THEN 0
  ELSE LET w == SpritzWindowMins(in)
       IN  IF w = NaN \/ w <= 0 THEN 0
           ELSE IF in.spritzInterval = NaN THEN NaN
           ELSE IF ToNumber(in.spritzInterval) = 0 THEN Infinity
           ELSE FloorDiv(w, 4000 * ToNumber(in.spritzInterval))

\* a variant that leaves the 15% buffer out
TotalCookMinutes_NoBuffer(in) ==
  LET c == SpritzCount(in)
  IN  IF ~IsFinite(c) THEN c
      ELSE 180 * WrapAdjustedHours(in) + 3600000 * c

\* a variant that takes the buffer before the spritz penalty is added
TotalCookMinutes_BufferBeforeSpritz(in) ==
  LET c == SpritzCount(in)
  IN  IF ~IsFinite(c) THEN c
      ELSE 207 * WrapAdjustedHours(in) + 3600000 * c

\* 4. totalCookMinutes = (adjusted + spritzCount * 15 / 60) * 1.15 * 60, in q
TotalCookMinutes(in) ==
  LET c == SpritzCount(in)
  IN  IF ~IsFinite(c) THEN c
      ELSE 207 * WrapAdjustedHours(in) + 4140000 * c

ServeDate(in) == parseISO(in.serveTime)

\* 5. the timeline, backwards from the serve time
FinishCookTime(in) == subMinutes(ServeDate(in), Minutes(in.restTime))

StartCookTime(in) == subMinutes(FinishCookTime(in), TotalCookMinutes(in))

StartPrepTime(in) == subMinutes(StartCookTime(in), Minutes(in.prepTime))

\* a variant that does not look at wrapTemp
WrapTimingFactor_StallOnly(in) == 10 * MEAT_PROFILES[in.meatType].stallFactor

\* a variant that moves the wrap later for an unwrapped cook as well
WrapTimingFactor_AlsoUnwrapped(in) ==
  LET stall == 10 * MEAT_PROFILES[in.meatType].stallFactor
  IN  IF in.wrapTemp # NaN /\ ToNumber(in.wrapTemp) - 160 > 0
      THEN stall + 5 * (ToNumber(in.wrapTemp) - 160)
      ELSE stall

\* wrapTimingFactor in thousandths: the stall factor, moved later by 0.005
\* per degree of wrapTemp above 160 when the meat is wrapped
WrapTimingFactor(in) ==
  LET stall == 10 * MEAT_PROFILES[in.meatType].stallFactor
  IN  IF in.wrapStrategy # "none" /\ in.wrapTemp # NaN
         /\ ToNumber(in.wrapTemp) - 160 > 0
      THEN stall + 5 * (ToNumber(in.wrapTemp) - 160)
      ELSE stall

\* minutesUntilWrap = totalCookMinutes * wrapTimingFactor, in q rounded down
\* (addMinutes then rounds down to a millisecond, which gives the same Date)
MinutesUntilWrap(in) ==
  LET t == TotalCookMinutes(in)
  IN  IF ~IsFinite(t) THEN t ELSE FloorMulDiv(t, WrapTimingFactor(in), 1000)

WrapTime(in) == addMinutes(StartCookTime(in), MinutesUntilWrap(in))

\* a variant that sets spritzStartTime without looking at spritzEnabled and
\* at the count
SpritzWindow_Unconditional(in) ==
  [ isNull |-> FALSE,
    start  |-> addMinutes(StartCookTime(in), Minutes(in.spritzStart)),
    end    |-> IF in.wrapStrategy # "none"
               THEN WrapTime(in)
               ELSE subMinutes(FinishCookTime(in), Minutes(60)),
    count  |-> SpritzCount(in),
    type   |-> MEAT_PROFILES[in.meatType].spritz.type ]

\* a variant whose window always ends at the wrap
SpritzWindow_EndsAtWrap(in) ==
  LET c == SpritzCount(in)
  IN  IF in.spritzEnabled = TRUE /\ c # NaN /\ c > 0
      THEN [ isNull |-> FALSE,
             start  |-> addMinutes(StartCookTime(in), Minutes(in.spritzStart)),
             end    |-> WrapTime(in),
             count  |-> c,
             type   |-> MEAT_PROFILES[in.meatType].spritz.type ]
      ELSE NoWindow

\* the spritz window; spritzStartTime is a Date object whenever it is set, so
\* the window is reported exactly when spritz is enabled and spritzCount > 0
SpritzWindow(in) ==
  LET c == SpritzCount(in)
  IN  IF in.spritzEnabled = TRUE /\ c # NaN /\ c > 0
      THEN [ isNull |-> FALSE,
             start  |-> addMinutes(StartCookTime(in), Minutes(in.spritzStart)),
             end    |-> IF in.wrapStrategy # "none"
                        THEN WrapTime(in)
                        ELSE subMinutes(FinishCookTime(in), Minutes(60)),
             count  |-> c,
             type   |-> MEAT_PROFILES[in.meatType].spritz.type ]
      ELSE NoWindow

\* a variant whose weight limit includes 14 lb
TurkeySafety_From14(in) ==
  /\ in.meatType = "turkey"
  /\ in.weight # NaN /\ ToNumber(in.weight) >= 28
  /\ in.temp # NaN /\ ToNumber(in.temp) < 275
  /\ in.isSpatchcock # TRUE

\* Turkey Safety: a whole turkey over 14 lb (28 half pounds) below 275 F
TurkeySafety(in) ==
  /\ in.meatType = "turkey"
  /\ in.weight # NaN /\ ToNumber(in.weight) > 28
  /\ in.temp # NaN /\ ToNumber(in.temp) < 275
  /\ in.isSpatchcock # TRUE

\* a variant that does not look at the wrap strategy
PoultrySkin_AnyWrap(in) ==
  /\ IsPoultryType(in.meatType)
  /\ in.temp # NaN /\ ToNumber(in.temp) < 275

\* Poultry Skin: an unwrapped bird below 275 F
PoultrySkin(in) ==
  /\ IsPoultryType(in.meatType)
  /\ in.wrapStrategy = "none"
  /\ in.temp # NaN /\ ToNumber(in.temp) < 275

\* newWarnings, in the order the rules are checked
Warnings(in) ==
  (IF TurkeySafety(in)
   THEN <<[type |-> "safety", msg |-> "SAFETY ALERT", temp |-> in.temp]>>
   ELSE <<>>)
  \o
  (IF PoultrySkin(in)
   THEN <<[type |-> "quality", msg |-> "Rubber Skin Alert", temp |-> 0]>>
   ELSE <<>>)

\* a variant that still calls 24 hours 'instant'
AffiliateMode_UpTo24(in, clock) ==
  LET h == differenceInHours(ServeDate(in), clock)
  IN  IF h # NaN /\ h <= 24 THEN "instant" ELSE "planning"

\* affiliateMode: 'instant' when the serve time is less than 24 whole hours
\* after the clock reading
AffiliateMode(in, clock) ==
  LET h == differenceInHours(ServeDate(in), clock)
  IN  IF h # NaN /\ h < 24 THEN "instant" ELSE "planning"

\* (totalCookMinutes / 60).toFixed(1), in tenths of an hour: the nearest
\* tenth, the one further from zero on a tie
TotalCookHours(in) ==
  LET t == TotalCookMinutes(in)
  IN  IF ~IsFinite(t) THEN t
      ELSE IF t >= 0 THEN (t + 720000) \div 1440000
           ELSE 0 - ((720000 - t) \div 1440000)

\* a variant without the isValid check
EngineReturnsEarly_NoValidCheck(in) ==
  \/ Len(in.serveTime) = 0
  \/ Falsy(in.weight)

\* the early exits: no serveTime, a falsy weight, an unparsable serveTime
EngineReturnsEarly(in) ==
  \/ Len(in.serveTime) = 0
  \/ Falsy(in.weight)
  \/ ~isValid(ServeDate(in))

\* the object handed to setPlan
ComputePlan(in, clock) ==
  [ isNull         |-> FALSE,
    startPrep      |-> StartPrepTime(in),
    startCook      |-> StartCookTime(in),
    wrapTime       |-> WrapTime(in),
    finishCook     |-> FinishCookTime(in),
    serve          |-> ServeDate(in),
    spritzWindow   |-> SpritzWindow(in),
    totalCookHours |-> TotalCookHours(in),
    affiliateMode  |-> AffiliateMode(in, clock),
    isPoultry      |-> IsPoultryType(in.meatType) ]

\* rendering formats the five timestamps and the spritz window's start
RenderThrows(p) ==
  /\ ~p.isNull
  /\ \/ FormatThrows(p.startPrep)
     \/ FormatThrows(p.startCook)
     \/ FormatThrows(p.wrapTime)
     \/ FormatThrows(p.finishCook)
     \/ FormatThrows(p.serve)
     \/ (~p.spritzWindow.isNull /\ FormatThrows(p.spritzWindow.start))

---------------------------------------------------------------------------
(* Component state *)

NumberFields ==
  {"weight", "temp", "restTime", "prepTime", "wrapTemp", "targetTemp",
   "spritzStart", "spritzInterval"}

\* the inputs a first visit starts from (nothing in localStorage)
DefaultInputs ==
  [ meatType       |-> "porkButt",
    weight         |-> 16,
    temp           |-> 250,
    restTime       |-> 45,
    serveTime      |-> <<>>,
    prepTime       |-> 45,
    wrapStrategy   |-> "foil_pan",
    wrapTemp       |-> 165,
    targetTemp     |-> 205,
    spritzEnabled  |-> TRUE,
    spritzStart    |-> 120,
    spritzInterval |-> 60,
    isSpatchcock   |-> FALSE,
    fatSideUp      |-> FALSE ]

\* JSON.parse(JSON.stringify(inputs)): NaN is written as null
JsonRoundTrip(in) ==
  [f \in DOMAIN in |->
     IF f \in NumberFields
     THEN (IF in[f] = NaN THEN Null ELSE in[f])
     ELSE in[f]]

NothingSaved == [present |-> FALSE]

\* a localStorage that holds nothing and takes nothing: setItem throws (the
\* quota is used up, or the browser gives the page no storage to write to)
StorageRefuses == [present |-> FALSE, refuses |-> TRUE]

\* localStorage.getItem('pelletPlanV6') after setItem(JSON.stringify(in))
SavedItem(in) == [present |-> TRUE, value |-> JsonRoundTrip(in)]

\* the useState initializer
InitialInputs(item) == IF item.present THEN item.value ELSE DefaultInputs

\* the first version's handler, which resets the weight and the rest only
MeatChange_V1(prev, type) ==
  [prev EXCEPT
     !.meatType = type,
     !.weight   = MEAT_PROFILES[type].defaultWeight,
     !.restTime = MEAT_PROFILES[type].rest.default]

\* a variant that keeps the set temperature and the wrap temperature
MeatChange_KeepsTemps(prev, type) ==
  LET profile == MEAT_PROFILES[type]
      isPoultry == IsPoultryType(type)
  IN  [prev EXCEPT
         !.meatType       = type,
         !.weight         = profile.defaultWeight,
         !.restTime       = profile.rest.default,
         !.wrapStrategy   = IF isPoultry THEN "none" ELSE "foil_pan",
         !.targetTemp     = profile.defaultTargetTemp,
         !.spritzEnabled  = IF isPoultry THEN TRUE ELSE profile.spritz.recommended,
         !.spritzStart    = profile.spritz.startAfter,
         !.spritzInterval = profile.spritz.interval,
         !.isSpatchcock   = FALSE,
         !.fatSideUp      = FALSE]

\* a variant that also puts the prep time back to its default
MeatChange_ResetsPrep(prev, type) ==
  LET profile == MEAT_PROFILES[type]
      isPoultry == IsPoultryType(type)
  IN  [prev EXCEPT
         !.meatType       = type,
         !.weight         = profile.defaultWeight,
         !.restTime       = profile.rest.default,
         !.prepTime       = 45,
         !.wrapStrategy   = IF isPoultry THEN "none" ELSE "foil_pan",
         !.wrapTemp       = 165,
         !.targetTemp     = profile.defaultTargetTemp,
         !.spritzEnabled  = IF isPoultry THEN TRUE ELSE profile.spritz.recommended,
         !.spritzStart    = profile.spritz.startAfter,
         !.spritzInterval = profile.spritz.interval,
         !.isSpatchcock   = FALSE,
         !.fatSideUp      = FALSE,
         !.temp           = IF type = "turkey" THEN 275 ELSE 250]

\* handleMeatChange(type): the object the updater returns
MeatChange(prev, type) ==
  LET profile == MEAT_PROFILES[type]
      isPoultry == IsPoultryType(type)
  IN  [prev EXCEPT
         !.meatType       = type,
         !.weight         = profile.defaultWeight,
         !.restTime       = profile.rest.default,
         !.wrapStrategy   = IF isPoultry THEN "none" ELSE "foil_pan",
         !.wrapTemp       = 165,
         !.targetTemp     = profile.defaultTargetTemp,
         !.spritzEnabled  = IF isPoultry THEN TRUE ELSE profile.spritz.recommended,
         !.spritzStart    = profile.spritz.startAfter,
         !.spritzInterval = profile.spritz.interval,
         !.isSpatchcock   = FALSE,
         !.fatSideUp      = FALSE,
         !.temp           = IF type = "turkey" THEN 275 ELSE 250]

\* a variant in which a safety warning holds the plan back
PlanAfterEffect_BlockedBySafety(in, clock, oldPlan) ==
  IF EngineReturnsEarly(in) \/ TurkeySafety(in)
  THEN oldPlan
  ELSE ComputePlan(in, clock)

\* a variant that computes a plan only while none is stored
PlanAfterEffect_KeepsFirst(in, clock, oldPlan) ==
  IF EngineReturnsEarly(in) \/ ~oldPlan.isNull
  THEN oldPlan
  ELSE ComputePlan(in, clock)

\* the plan after the logic-engine effect ran for the committed inputs
PlanAfterEffect(in, clock, oldPlan) ==
  IF EngineReturnsEarly(in) THEN oldPlan ELSE ComputePlan(in, clock)

\* a variant that adds the new warnings to the ones already shown
WarningsAfterEffect_Appended(in, oldWarnings) ==
  IF EngineReturnsEarly(in) THEN oldWarnings ELSE oldWarnings \o Warnings(in)

\* the warnings after the logic-engine effect ran for the committed inputs
WarningsAfterEffect(in, oldWarnings) ==
  IF EngineReturnsEarly(in) THEN oldWarnings ELSE Warnings(in)

\* One commit of the component: the new inputs object is stored, the
\* persistence effect writes it to localStorage, the logic engine runs, and
\* the result is rendered.  Neither effect catches anything and the
\* component has no error boundary: when setItem throws, React unmounts the
\* tree, and whether the logic engine, the next effect of the same
\* component, still ran depends on the React version.
Commit(in) ==
  /\ inputs' = in
  /\ saved' = IF saved = StorageRefuses THEN saved ELSE SavedItem(in)
  /\ \E ran \in (IF saved = StorageRefuses THEN BOOLEAN ELSE {TRUE}) :
       /\ plan' = IF ran THEN PlanAfterEffect(in, now, plan) ELSE plan
       /\ warnings' = IF ran THEN WarningsAfterEffect(in, warnings)
                             ELSE warnings
  /\ phase' = IF saved = StorageRefuses \/ RenderThrows(plan')
               THEN "crashed" ELSE "idle"
  /\ UNCHANGED now

---------------------------------------------------------------------------
(* Bounds of the model *)

\* the number of setInputs calls followed in one session
MaxEdits == 3

\* what the wall clock can read: midnight of 2024-01-01 and two days later
ClockTimes == {0, 48 * MsPerHour}

ServeT1 == <<2024, 1, 1, 18, 0>>

ServeT2 == <<2024, 1, 3, 12, 30>>

\* a five-digit year, which the datetime-local field accepts
ServeUnparsable == <<12024, 1, 1, 18, 0>>

ServeTimeEntries == {<<>>, ServeT1, ServeT2, ServeUnparsable}

\* parseFloat of the weight field: empty, 0, 2.5 lb, 16 lb
WeightEntries == {NaN, 0, 5, 32}

\* parseInt of the number fields of the settings panel
WrapTempEntries == {NaN, 200}

SpritzStartEntries == {NaN, 30}

SpritzIntervalEntries == {NaN, 0, 30}

TargetTempEntries == {190}

RestTimeEntries == {NaN, 400}

PrepTimeEntries == {NaN, 0}

\* the options of the Set Temp select
TempOptions(meatType) ==
  {225, 250, 275} \cup (IF IsPoultryType(meatType) THEN {300, 325} ELSE {})

---------------------------------------------------------------------------
(* Actions *)

\* first render of the component: both effects run for the initial inputs
Mount ==
  /\ phase = "mounting"
  /\ Commit(inputs)
  /\ UNCHANGED <<showSettings, edits>>

\* an onChange handler calling setInputs with the object next
Edit(next) ==
  /\ phase = "idle"
  /\ edits < MaxEdits
  /\ edits' = edits + 1
  /\ Commit(next)
  /\ UNCHANGED showSettings

handleMeatChange(type) == Edit(MeatChange(inputs, type))

SetWeight(v) == Edit([inputs EXCEPT !.weight = v])

SetTemp(v) ==
  /\ v \in TempOptions(inputs.meatType)
  /\ Edit([inputs EXCEPT !.temp = v])

SetServeTime(v) == Edit([inputs EXCEPT !.serveTime = v])

ToggleSettings ==
  /\ phase = "idle"
  /\ showSettings' = ~showSettings
  /\ UNCHANGED <<inputs, plan, warnings, saved, now, phase, edits>>

SetIsSpatchcock ==
  /\ showSettings
  /\ IsPoultryType(inputs.meatType)
  /\ Edit([inputs EXCEPT !.isSpatchcock = ~(inputs.isSpatchcock = TRUE)])

SetFatSideUp ==
  /\ showSettings
  /\ inputs.meatType = "brisket"
  /\ Edit([inputs EXCEPT !.fatSideUp = ~(inputs.fatSideUp = TRUE)])

SetWrapTemp(v) ==
  /\ showSettings
  /\ inputs.wrapStrategy # "none"
  /\ Edit([inputs EXCEPT !.wrapTemp = v])

SetWrapStrategy(v) ==
  /\ showSettings
  /\ Edit([inputs EXCEPT !.wrapStrategy = v])

SetSpritzEnabled ==
  /\ showSettings
  /\ Edit([inputs EXCEPT !.spritzEnabled = ~(inputs.spritzEnabled = TRUE)])

SetSpritzStart(v) ==
  /\ showSettings
  /\ inputs.spritzEnabled = TRUE
  /\ Edit([inputs EXCEPT !.spritzStart = v])

SetSpritzInterval(v) ==
  /\ showSettings
  /\ inputs.spritzEnabled = TRUE
  /\ Edit([inputs EXCEPT !.spritzInterval = v])

SetTargetTemp(v) ==
  /\ showSettings
  /\ Edit([inputs EXCEPT !.targetTemp = v])

SetRestTime(v) ==
  /\ showSettings
  /\ Edit([inputs EXCEPT !.restTime = v])

SetPrepTime(v) ==
  /\ showSettings
  /\ Edit([inputs EXCEPT !.prepTime = v])

\* the wall clock moves on
Tick ==
  /\ phase = "idle"
  /\ \E t \in ClockTimes : t > now /\ now' = t
  /\ UNCHANGED <<inputs, plan, warnings, saved, showSettings, phase, edits>>

---------------------------------------------------------------------------
(* The session: a first visit or a return visit, then edits *)

\* what an earlier session can have left in localStorage
InitialStorage ==
  {NothingSaved, SavedItem([DefaultInputs EXCEPT !.serveTime = ServeT1])}

Init ==
  /\ saved \in InitialStorage
  /\ inputs = InitialInputs(saved)
  /\ plan = NoPlan
  /\ warnings = <<>>
  /\ now = 0
  /\ showSettings = FALSE
  /\ phase = "mounting"
  /\ edits = 0

Next ==
  \/ Mount
  \/ \E type \in MeatTypes : handleMeatChange(type)
  \/ \E v \in WeightEntries : SetWeight(v)
  \/ \E v \in {225, 250, 275, 300, 325} : SetTemp(v)
  \/ \E v \in ServeTimeEntries : SetServeTime(v)
  \/ ToggleSettings
  \/ SetIsSpatchcock
  \/ SetFatSideUp
  \/ \E v \in WrapTempEntries : SetWrapTemp(v)
  \/ \E v \in WrapKeys : SetWrapStrategy(v)
  \/ SetSpritzEnabled
  \/ \E v \in SpritzStartEntries : SetSpritzStart(v)
  \/ \E v \in SpritzIntervalEntries : SetSpritzInterval(v)
  \/ \E v \in TargetTempEntries : SetTargetTemp(v)
  \/ \E v \in RestTimeEntries : SetRestTime(v)
  \/ \E v \in PrepTimeEntries : SetPrepTime(v)
  \/ Tick

Spec == Init /\ [][Next]_vars

---------------------------------------------------------------------------
(* The engine on its own: a return visit with any stored inputs.  The      *)
(* component mounts with the inputs an earlier session left in             *)
(* localStorage and the logic engine runs for them once.                   *)

\* stored weights: null (the field was left empty), 0, -8, 2.5, 8, 14, 16 lb
StoredWeights == {Null, 0, -16, 5, 16, 28, 32}

StoredRestTimes == {-30, 45, 400}

StoredPrepTimes == {-10, 45}

StoredWrapTemps == {150, 165, 200}

\* spritzEnabled, spritzStart, spritzInterval
StoredSpritz == BOOLEAN \X {-30, 120} \X {-60, 0, 60}

\* meatType, temp, isSpatchcock, fatSideUp: the technique toggles exist for
\* their own meat types only, and so do the two hottest temperatures
StoredMeats ==
  {<<m, t, s, f>> \in MeatTypes \X {225, 250, 275, 300} \X BOOLEAN \X BOOLEAN :
      /\ t \in TempOptions(m)
      /\ s => IsPoultryType(m)
      /\ f => m = "brisket"}

StoredRecord(m, w, r, sv, p, ws, wt, sp) ==
  [ meatType       |-> m[1],
    weight         |-> w,
    temp           |-> m[2],
    restTime       |-> r,
    serveTime      |-> sv,
    prepTime       |-> p,
    wrapStrategy   |-> ws,
    wrapTemp       |-> wt,
    targetTemp     |-> MEAT_PROFILES[m[1]].defaultTargetTemp,
    spritzEnabled  |-> sp[1],
    spritzStart    |-> sp[2],
    spritzInterval |-> sp[3],
    isSpatchcock   |-> m[3],
    fatSideUp      |-> m[4] ]

\* every combination with a serve time that parses and a weight that counts
StoredComplete ==
  {StoredRecord(m, w, r, ServeT1, p, ws, wt, sp) :
     m \in StoredMeats, w \in StoredWeights \ {Null, 0},
     r \in StoredRestTimes, p \in StoredPrepTimes, ws \in WrapKeys,
     wt \in StoredWrapTemps, sp \in StoredSpritz}

\* the other serve times and weights, for each meat's defaults
StoredOther ==
  {[MeatChange(DefaultInputs, m) EXCEPT !.serveTime = sv, !.weight = w] :
     m \in MeatTypes, sv \in ServeTimeEntries, w \in StoredWeights}

\* a rest time of -1e14 minutes, for each meat's defaults
StoredExtreme ==
  {[MeatChange(DefaultInputs, m) EXCEPT !.serveTime = ServeT1, !.restTime = Huge] :
     m \in MeatTypes}

\* a spritz that starts 250 minutes into the cook, every 45 minutes, for
\* each meat's defaults, wrapped in a foil pan and unwrapped
StoredLateSpritz ==
  {[MeatChange(DefaultInputs, m) EXCEPT
      !.serveTime = ServeT1, !.spritzEnabled = TRUE,
      !.spritzStart = 250, !.spritzInterval = 45, !.wrapStrategy = ws] :
     m \in MeatTypes, ws \in {"foil_pan", "none"}}

StoredInputs ==
  StoredComplete \cup StoredOther \cup StoredExtreme \cup StoredLateSpritz

InitEngine ==
  /\ saved \in {SavedItem(in) : in \in StoredInputs}
  /\ inputs = InitialInputs(saved)
  /\ plan = NoPlan
  /\ warnings = <<>>
  /\ now \in ClockTimes
  /\ showSettings = FALSE
  /\ phase = "mounting"
  /\ edits = 0

NextEngine == Mount

SpecEngine == InitEngine /\ [][NextEngine]_vars

---------------------------------------------------------------------------
(* The session in a browser whose localStorage may refuse to be written *)

InitStorage ==
  /\ saved \in InitialStorage \cup {StorageRefuses}
  /\ inputs = InitialInputs(saved)
  /\ plan = NoPlan
  /\ warnings = <<>>
  /\ now = 0
  /\ showSettings = FALSE
  /\ phase = "mounting"
  /\ edits = 0

SpecStorage == InitStorage /\ [][Next]_vars

---------------------------------------------------------------------------
(* Properties *)

\* the logic engine ran for the current inputs and set a plan
PlanProduced == phase # "mounting" /\ ~EngineReturnsEarly(inputs) /\ ~plan.isNull

\* the inputs the schedule is specified for: positive weight, rest and prep
\* not negative, spritz start not negative, spritz interval positive
SensibleInputs ==
  /\ ToNumber(inputs.weight) > 0
  /\ ToNumber(inputs.restTime) >= 0
  /\ ToNumber(inputs.prepTime) >= 0
  /\ ToNumber(inputs.spritzStart) >= 0
  /\ ToNumber(inputs.spritzInterval) > 0
  /\ \A f \in NumberFields : inputs[f] # NaN

\* C1: for every input the engine produces a plan for (weight > 0, restTime
\* >= 0, prepTime >= 0, any wrapTemp) the plan's timestamps are ordered:
\* startPrep <= startCook <= wrapTime <= finishCook <= serve.
C1_TimestampsOrdered ==
  (PlanProduced /\ SensibleInputs) =>
     /\ plan.startPrep <= plan.startCook
     /\ plan.startCook <= plan.wrapTime
     /\ plan.wrapTime <= plan.finishCook
     /\ plan.finishCook <= plan.serve

C3_NoResult ==
  (/\ phase # "mounting"
   /\ \/ inputs.serveTime = <<>>
      \/ parseISO(inputs.serveTime) = InvalidDate
      \/ inputs.weight \in {0, NaN, Null})
  => (plan = NoPlan /\ warnings = <<>> /\ phase = "idle")

C3_Witness ==
  /\ phase = "idle"
  /\ inputs.serveTime = ServeUnparsable
  /\ ~Falsy(inputs.weight)
  /\ plan = NoPlan

\* C4: whenever the current inputs lack a serveTime or have a falsy weight,
\* no plan exists, also after a plan was computed from earlier inputs.
C4_NoPlanWithoutInputs ==
  (phase = "idle" /\ (inputs.serveTime = <<>> \/ inputs.weight \in {0, NaN, Null}))
  => plan = NoPlan

\* C5: after any sequence of edits that ends with a parsable serveTime and a
\* weight that counts, the stored plan and the stored warnings are the
\* engine's output for the current inputs (at the clock reading of that
\* recomputation) and nothing of an earlier result is left.
C5_PlanIsEngineOutput ==
  (/\ phase # "mounting"
   /\ inputs.serveTime # <<>>
   /\ parseISO(inputs.serveTime) # InvalidDate
   /\ inputs.weight \notin {0, NaN, Null})
  => /\ \E clock \in ClockTimes :
          clock <= now /\ plan = ComputePlan(inputs, clock)
     /\ warnings = Warnings(inputs)

\* a third edit replaced a plan that carried warnings by one that has none
C5_Witness ==
  /\ phase = "idle"
  /\ edits = MaxEdits
  /\ inputs.meatType = "turkey" /\ inputs.weight = 32
  /\ inputs.temp = 275
  /\ ~plan.isNull /\ plan.isPoultry
  /\ warnings = <<>>

\* C6: with spritzEnabled false the plan has no spritz window, whatever
\* spritzStart, spritzInterval, the wrap strategy and the meat type are.
C6_NoWindowWhenDisabled ==
  (PlanProduced /\ inputs.spritzEnabled = FALSE) => plan.spritzWindow = NoWindow

\* spritz is off where it would otherwise have had a window
C6_Witness ==
  /\ PlanProduced
  /\ inputs.spritzEnabled = FALSE
  /\ ~SpritzWindow([inputs EXCEPT !.spritzEnabled = TRUE]).isNull
  /\ plan.spritzWindow = NoWindow

\* how far above the stored wrapTemp the comparison of C7 looks
MaxWrapTempRise == 12

\* the wrapTime of the plan for the current inputs with wrapTemp replaced
WrapTimeAt(wrapTemp) == WrapTime([inputs EXCEPT !.wrapTemp = wrapTemp])

\* C7 as stated: with the other inputs fixed, a wrapTemp above 160 and any
\* higher one give a strictly later wrapTime.
C7_HigherWrapTempLater ==
  (PlanProduced /\ SensibleInputs /\ inputs.wrapTemp > 160)
  => \A b \in (inputs.wrapTemp + 1) .. (inputs.wrapTemp + MaxWrapTempRise) :
        WrapTimeAt(b) > plan.wrapTime

\* C7 (amended): for a wrap strategy other than 'none' and a cook duration
\* of at least 0.2 s, a wrapTemp above 160 and any higher whole-degree one
\* give a strictly later wrapTime; with 'none' wrapTime is the same for both.
C7_HigherWrapTempLaterWhenWrapped ==
  (/\ PlanProduced
   /\ inputs.wrapTemp # NaN /\ inputs.wrapTemp > 160
   /\ plan.wrapTime # InvalidDate)
  => \A b \in (inputs.wrapTemp + 1) .. (inputs.wrapTemp + MaxWrapTempRise) :
        /\ (inputs.wrapStrategy # "none" /\ TotalCookMinutes(inputs) >= 800)
              => WrapTimeAt(b) > plan.wrapTime
        /\ inputs.wrapStrategy = "none" => WrapTimeAt(b) = plan.wrapTime

C7_Witness ==
  /\ PlanProduced
  /\ inputs.wrapStrategy = "paper"
  /\ inputs.wrapTemp = 165
  /\ plan.wrapTime # InvalidDate
  /\ WrapTimeAt(166) > plan.wrapTime
  /\ WrapTimeAt(166) - plan.wrapTime < MsPerMinute

\* C8: handleMeatChange(T) sets meatType to T and resets weight, restTime,
\* targetTemp, spritzStart and spritzInterval to T's profile defaults.
C8_MeatChangeResetsToProfile ==
  [][\A type \in MeatTypes :
       handleMeatChange(type) =>
         /\ inputs'.meatType = type
         /\ inputs'.weight = MEAT_PROFILES[type].defaultWeight
         /\ inputs'.restTime = MEAT_PROFILES[type].rest.default
         /\ inputs'.targetTemp = MEAT_PROFILES[type].defaultTargetTemp
         /\ inputs'.spritzStart = MEAT_PROFILES[type].spritz.startAfter
         /\ inputs'.spritzInterval = MEAT_PROFILES[type].spritz.interval]_vars

\* three edits into a session that started on pork butt, ribs are selected,
\* carry the defaults of the ribs profile and have a plan
C8_Witness ==
  /\ phase = "idle"
  /\ edits = MaxEdits
  /\ inputs.meatType = "ribs"
  /\ inputs.weight = 6 /\ inputs.restTime = 15 /\ inputs.targetTemp = 200
  /\ inputs.spritzStart = 90 /\ inputs.spritzInterval = 45
  /\ ~plan.isNull

\* C9: a meat-type change is one update that also resets the wrap and spritz
\* policy, the technique flags and the set temperature, and the
\* recomputation that follows sees all of the reset fields at once.
C9_MeatChangeAtomic ==
  [][\A type \in MeatTypes :
       handleMeatChange(type) =>
         /\ inputs'.wrapStrategy = (IF type \in {"turkey", "chicken"}
                                    THEN "none" ELSE "foil_pan")
         /\ inputs'.wrapTemp = 165
         /\ inputs'.spritzEnabled = (IF type \in {"turkey", "chicken"}
                                     THEN TRUE
                                     ELSE MEAT_PROFILES[type].spritz.recommended)
         /\ inputs'.isSpatchcock = FALSE
         /\ inputs'.fatSideUp = FALSE
         /\ inputs'.temp = (IF type = "turkey" THEN 275 ELSE 250)
         /\ (inputs'.serveTime # <<>> /\ parseISO(inputs'.serveTime) # InvalidDate)
              => /\ plan' = ComputePlan(inputs', now)
                 /\ warnings' = Warnings(inputs')]_vars

\* three edits into a session that started on pork butt, turkey is selected
\* with the poultry policy in place, and the plan is one computed for poultry
C9_Witness ==
  /\ phase = "idle"
  /\ edits = MaxEdits
  /\ inputs.meatType = "turkey"
  /\ inputs.wrapStrategy = "none" /\ inputs.wrapTemp = 165
  /\ inputs.temp = 275 /\ inputs.spritzEnabled = TRUE
  /\ ~inputs.isSpatchcock /\ ~inputs.fatSideUp
  /\ ~plan.isNull /\ plan.isPoultry

\* the inputs of Scenario A
ScenarioA ==
  /\ inputs.meatType = "porkButt"
  /\ inputs.weight = 16
  /\ inputs.temp = 250
  /\ inputs.wrapStrategy = "foil_pan"
  /\ inputs.spritzEnabled = FALSE
  /\ inputs.serveTime = ServeT1
  /\ inputs.restTime = 45
  /\ inputs.prepTime = 45

\* C10: Scenario A yields totalCookMinutes = 576.84, finishCook = 17:15,
\* startCook = 17:15 less 576.84 minutes = 07:38:09.6 and startPrep = 45
\* minutes before that = 06:53:09.6.
C10_ScenarioA ==
  (phase # "mounting" /\ ScenarioA) =>
     /\ ~plan.isNull
     /\ TotalCookMinutes(inputs) = 57684 * (QPerMinute \div 100)
     /\ plan.finishCook = (17 * 60 + 15) * MsPerMinute
     /\ plan.startCook = (7 * 60 + 38) * MsPerMinute + 9600
     /\ plan.startPrep = (6 * 60 + 53) * MsPerMinute + 9600

C10_Witness ==
  /\ phase = "idle"
  /\ ScenarioA
  /\ plan.totalCookHours = 96

\* the list ws holds a warning of the given type
HasType(ws, type) == \E i \in 1..Len(ws) : ws[i].type = type

\* the list ws holds the warning with the given text
HasMsg(ws, msg) == \E i \in 1..Len(ws) : ws[i].msg = msg

\* C11: whenever a plan is produced, the warnings hold a warning of type
\* 'safety' exactly when the meat is turkey, the weight is over 14 lb, the
\* set temperature is under 275 F and the bird is not spatchcocked.
C11_TurkeySafetyIff ==
  PlanProduced =>
    (HasType(warnings, "safety") <=>
       /\ inputs.meatType = "turkey"
       /\ inputs.weight > 2 * 14
       /\ inputs.temp < 275
       /\ inputs.isSpatchcock = FALSE)

\* Scenario B: a 16 lb turkey at 225 F, not spatchcocked, carries the warning
C11_Witness ==
  /\ PlanProduced
  /\ inputs.meatType = "turkey" /\ inputs.weight = 2 * 16
  /\ inputs.temp = 225 /\ inputs.isSpatchcock = FALSE
  /\ HasType(warnings, "safety")

\* C12: whenever a plan is produced, the warnings hold the skin-crisping
\* warning, of type 'quality', exactly when the meat is turkey or chicken,
\* the wrap strategy is 'none' and the set temperature is under 275 F.
C12_PoultrySkinIff ==
  PlanProduced =>
    /\ HasMsg(warnings, "Rubber Skin Alert") <=>
         /\ inputs.meatType \in {"turkey", "chicken"}
         /\ inputs.wrapStrategy = "none"
         /\ inputs.temp < 275
    /\ \A i \in 1..Len(warnings) :
         warnings[i].msg = "Rubber Skin Alert" => warnings[i].type = "quality"

\* Scenario C: an unwrapped chicken at 250 F carries the warning
C12_Witness ==
  /\ PlanProduced
  /\ inputs.meatType = "chicken" /\ inputs.wrapStrategy = "none"
  /\ inputs.temp = 250
  /\ HasMsg(warnings, "Rubber Skin Alert")

\* C13: whenever a plan is produced, the warnings hold the long-rest warning,
\* of type 'quality', when restTime is over the profile's rest.maxHold, and
\* do not hold it when restTime is at most rest.maxHold.
C13_LongRestWarning ==
  PlanProduced =>
    (\E i \in 1..Len(warnings) :
        warnings[i].type = "quality" /\ warnings[i].msg = "Long Rest Warning")
    <=> (inputs.restTime > MEAT_PROFILES[inputs.meatType].rest.maxHold)

\* C14: whenever a plan is produced, the warnings hold a warning of type
\* 'info' (the fat-side-up tip) when the meat is brisket, fatSideUp is set
\* and spritz is enabled, and hold none when one of the three is false.
C14_FatSideUpTip ==
  PlanProduced =>
    (HasType(warnings, "info") <=>
       /\ inputs.meatType = "brisket"
       /\ inputs.fatSideUp = TRUE
       /\ inputs.spritzEnabled = TRUE)

\* the number of the two warning rules whose conditions hold for the inputs
RulesThatHold ==
  (IF /\ inputs.meatType = "turkey" /\ inputs.weight > 2 * 14
      /\ inputs.temp < 275 /\ inputs.isSpatchcock = FALSE
   THEN 1 ELSE 0)
  +
  (IF /\ inputs.meatType \in {"turkey", "chicken"}
      /\ inputs.wrapStrategy = "none" /\ inputs.temp < 275
   THEN 1 ELSE 0)

\* C15: warnings never block the plan: for a parsable serveTime and a weight
\* that counts, a plan for the current inputs is set whether no, one or both
\* warning rules fire, and every rule whose condition holds is reported in
\* the same result, whatever the other rule does.
C15_WarningsNeverBlock ==
  (/\ phase # "mounting"
   /\ parseISO(inputs.serveTime) # InvalidDate
   /\ inputs.weight \notin {0, NaN, Null})
  => /\ ~plan.isNull
     /\ plan.serve = parseISO(inputs.serveTime)
     /\ plan.isPoultry = (inputs.meatType \in {"turkey", "chicken"})
     /\ Len(warnings) = RulesThatHold
     /\ RulesThatHold = 2 =>
          HasType(warnings, "safety") /\ HasType(warnings, "quality")

\* a 16 lb unwrapped turkey at 225 F: both warnings, and the plan
C15_Witness ==
  /\ phase = "idle"
  /\ inputs.meatType = "turkey" /\ inputs.weight = 2 * 16
  /\ inputs.wrapStrategy = "none" /\ inputs.temp = 225
  /\ inputs.isSpatchcock = FALSE
  /\ ~plan.isNull
  /\ Len(warnings) = 2
  /\ HasType(warnings, "safety") /\ HasType(warnings, "quality")

\* C16: the recomputation is deterministic and idempotent: whenever setInputs
\* is called, the result of a recomputation is the engine's output for the
\* new inputs and the clock, whatever plan and warnings were stored before;
\* and recomputing for inputs equal to the ones the stored result was
\* computed from, at the same clock reading, leaves plan and warnings as
\* they are.
C16_Idempotent ==
  [][edits' = edits + 1 =>
       /\ ~EngineReturnsEarly(inputs') =>
            /\ plan' = ComputePlan(inputs', now')
            /\ warnings' = Warnings(inputs')
       /\ (/\ inputs' = inputs
           /\ now' = now
           /\ \/ EngineReturnsEarly(inputs)
              \/ (plan = ComputePlan(inputs, now) /\ warnings = Warnings(inputs)))
          => (plan' = plan /\ warnings' = warnings)]_vars

\* two edits into a return visit the inputs are the stored ones again, and
\* plan and warnings are the ones computed on mount
C16_Witness ==
  /\ phase = "idle"
  /\ edits = 2
  /\ now = 0
  /\ inputs = [DefaultInputs EXCEPT !.serveTime = ServeT1]
  /\ plan = ComputePlan(inputs, 0)
  /\ warnings = Warnings(inputs)

\* set temperatures no profile of the catalog lists
UnlistedTemps == {200, 300}

\* the time from startCook to finishCook, in q, of the plan for the inputs in
CookSpan(in) == QPerMs * (FinishCookTime(in) - StartCookTime(in))

\* weight (half pounds) x 1.0 h/lb (x 0.75) x wrapMod x 1.15 x 60 min, in q
SpanAtRateOne(in) ==
  in.weight * 100 * (IF in.isSpatchcock /\ in.meatType \in {"turkey", "chicken"}
                     THEN 3 ELSE 4)
            * WRAP_STRATEGIES[in.wrapStrategy].multiplier * 207

\* C17: for every meat type and every set temperature that is no key of the
\* profile's tempProfiles the engine does not fail: the rate is 1.0, so that
\* the base cook hours are the weight in pounds, and a plan is produced.
C17_UnknownTempRateOne ==
  /\ (/\ phase # "mounting"
      /\ ~EngineReturnsEarly(inputs)
      /\ inputs.temp \notin DOMAIN MEAT_PROFILES[inputs.meatType].tempProfiles)
     => /\ ~plan.isNull
        /\ (inputs.spritzEnabled = FALSE /\ plan.startCook # InvalidDate) =>
             /\ QPerMs * (plan.finishCook - plan.startCook) >= SpanAtRateOne(inputs)
             /\ QPerMs * (plan.finishCook - plan.startCook) < SpanAtRateOne(inputs) + QPerMs
  /\ (PlanProduced /\ plan.startCook # InvalidDate /\ inputs.spritzEnabled = FALSE)
     => \A m \in MeatTypes : \A t \in UnlistedTemps \ DOMAIN MEAT_PROFILES[m].tempProfiles :
          LET in == [inputs EXCEPT !.meatType = m, !.temp = t]
          IN  /\ ~EngineReturnsEarly(in)
              /\ ~ComputePlan(in, now).isNull
              /\ CookSpan(in) >= SpanAtRateOne(in)
              /\ CookSpan(in) < SpanAtRateOne(in) + QPerMs

\* chicken at 300 F, a temperature the select offers and the chicken profile
\* does not list: 8 lb unwrapped take 8 x 1.25 x 1.15 = 11.5 hours
C17_Witness ==
  /\ PlanProduced
  /\ inputs.meatType = "chicken" /\ inputs.temp = 300
  /\ inputs.weight = 2 * 8 /\ inputs.isSpatchcock = FALSE
  /\ inputs.wrapStrategy = "none" /\ inputs.spritzEnabled = FALSE
  /\ plan.finishCook - plan.startCook = 690 * MsPerMinute

\* every number field of the inputs holds a number (no emptied field)
AllNumeric == \A f \in NumberFields : inputs[f] \notin {NaN, Null}

\* C18: for every meat type and wrap strategy, a parsable serveTime, a
\* non-zero weight and a positive spritzInterval, out-of-range numbers
\* (negative weight, restTime, prepTime or spritzStart, any wrapTemp) never
\* lead to an error: a plan is produced, its five timestamps are all valid
\* Dates, and it renders.
C18_NeverFailsOnNumbers ==
  (/\ phase # "mounting"
   /\ parseISO(inputs.serveTime) # InvalidDate
   /\ AllNumeric
   /\ inputs.weight # 0
   /\ inputs.spritzInterval > 0)
  => /\ ~plan.isNull
     /\ plan.startPrep # InvalidDate
     /\ plan.startCook # InvalidDate
     /\ plan.wrapTime # InvalidDate
     /\ plan.finishCook # InvalidDate
     /\ plan.serve # InvalidDate
     /\ phase = "idle"

\* C19: inputs with spritz enabled and a spritzInterval of zero or less are
\* rejected before the engine computes a plan: no plan is produced from them.
C19_NonPositiveIntervalRejected ==
  (/\ phase # "mounting"
   /\ inputs.spritzEnabled = TRUE
   /\ inputs.spritzInterval \notin {NaN, Null}
   /\ inputs.spritzInterval <= 0)
  => plan.isNull

\* adjustedCookHours x 60 - spritzStart before the tax, in 1/4000 minute:
\* weight (half pounds) x rate (hundredths) x quarters x multiplier
\* (hundredths) is the adjusted duration in 1/80000 hour
PreTaxWindow ==
  3 * (inputs.weight * Rate(inputs)
         * (IF inputs.isSpatchcock /\ inputs.meatType \in {"turkey", "chicken"}
            THEN 3 ELSE 4)
         * WRAP_STRATEGIES[inputs.wrapStrategy].multiplier)
  - 4000 * inputs.spritzStart

\* the same inputs with spritz switched off
SpritzDisabled == [inputs EXCEPT !.spritzEnabled = FALSE]

\* C20: with spritz enabled and a positive spritzInterval, the window is the
\* pre-tax adjusted duration in minutes less spritzStart; if it is positive,
\* spritzCount is floor(window / spritzInterval) and the adjusted duration
\* grows by exactly spritzCount x 15 minutes before the 15% buffer; if it is
\* zero or negative, spritzCount is 0, the total cook duration is the one
\* with spritz disabled, and the plan has no spritz window.
C20_SpritzTax ==
  (/\ PlanProduced
   /\ AllNumeric
   /\ plan.startCook # InvalidDate
   /\ inputs.spritzEnabled = TRUE
   /\ inputs.spritzInterval > 0)
  => LET window == PreTaxWindow
         count  == IF window > 0
                   THEN window \div (4000 * inputs.spritzInterval)
                   ELSE 0
         total  == TotalCookMinutes(SpritzDisabled) + count * 15 * 276000
     IN  /\ QPerMs * (plan.finishCook - plan.startCook) >= total
         /\ QPerMs * (plan.finishCook - plan.startCook) < total + QPerMs
         /\ count > 0 => /\ ~plan.spritzWindow.isNull
                         /\ plan.spritzWindow.count = count
         /\ count = 0 => /\ plan.spritzWindow = NoWindow
                         /\ plan.startCook = StartCookTime(SpritzDisabled)

\* 8 lb brisket at 225 F in paper: 12.96 h; from minute 120 on, every 60
\* minutes, that is floor(657.6 / 60) = 10 spritzes
C20_Witness ==
  /\ PlanProduced
  /\ inputs.meatType = "brisket" /\ inputs.weight = 2 * 8 /\ inputs.temp = 225
  /\ inputs.wrapStrategy = "paper"
  /\ inputs.spritzEnabled = TRUE
  /\ inputs.spritzStart = 120 /\ inputs.spritzInterval = 60
  /\ PreTaxWindow % (4000 * 60) # 0
  /\ plan.spritzWindow.count = 10

\* the engine ran for the current inputs, every number field holds a number
\* and the plan's timestamps are valid Dates
ValidPlan == PlanProduced /\ AllNumeric /\ plan.startPrep # InvalidDate

\* weight x rate x spatchcock factor x wrap multiplier, in 1/80000 hour
AdjustedBeforeTax ==
  inputs.weight * Rate(inputs)
    * (IF inputs.isSpatchcock /\ inputs.meatType \in {"turkey", "chicken"}
       THEN 3 ELSE 4)
    * WRAP_STRATEGIES[inputs.wrapStrategy].multiplier

\* C21: totalCookMinutes is (weight x rate x spatchcock factor x wrap
\* multiplier + spritzCount x 15/60) x 1.15 x 60: the 15% buffer is taken
\* once, after the wrap multiplier and after the spritz penalty; and the
\* plan's totalCookHours is totalCookMinutes / 60 to the nearest tenth.
C21_TotalCookMinutes ==
  ValidPlan =>
    LET count == IF plan.spritzWindow.isNull
                 THEN SpritzCount(inputs)
                 ELSE plan.spritzWindow.count
        total == 207 * AdjustedBeforeTax + 15 * 276000 * count
    IN  /\ QPerMs * (plan.finishCook - plan.startCook) >= total
        /\ QPerMs * (plan.finishCook - plan.startCook) < total + QPerMs
        /\ 1440000 * plan.totalCookHours - total <= 720000
        /\ total - 1440000 * plan.totalCookHours <= 720000

\* 8 lb of pork butt at 250 F in foil with 6 spritzes: (8.8 + 1.5) x 1.15 =
\* 11.845 hours, shown as 11.8
C21_Witness ==
  /\ ValidPlan
  /\ inputs.meatType = "porkButt" /\ inputs.weight = 2 * 8 /\ inputs.temp = 250
  /\ inputs.wrapStrategy = "foil"
  /\ ~plan.spritzWindow.isNull /\ plan.spritzWindow.count = 6
  /\ plan.finishCook - plan.startCook = 710700 * 60
  /\ plan.totalCookHours = 118

\* C22: the spatchcock modifier takes a quarter off the base hours only for
\* a spatchcocked turkey or chicken; for brisket, pork butt and ribs the
\* value of isSpatchcock changes no field of the plan and no warning.
C22_SpatchcockPoultryOnly ==
  /\ (ValidPlan /\ inputs.spritzEnabled = FALSE) =>
       LET quarters == IF inputs.isSpatchcock
                          /\ inputs.meatType \in {"turkey", "chicken"}
                       THEN 3 ELSE 4
           total == 207 * inputs.weight * Rate(inputs) * quarters
                        * WRAP_STRATEGIES[inputs.wrapStrategy].multiplier
       IN  /\ QPerMs * (plan.finishCook - plan.startCook) >= total
           /\ QPerMs * (plan.finishCook - plan.startCook) < total + QPerMs
  /\ (ValidPlan /\ inputs.meatType \in {"brisket", "porkButt", "ribs"}) =>
       \A flag \in BOOLEAN :
          /\ ComputePlan([inputs EXCEPT !.isSpatchcock = flag], now) = plan
          /\ Warnings([inputs EXCEPT !.isSpatchcock = flag]) = warnings

\* a spatchcocked 8 lb turkey at 275 F in foil: 8 x 0.35 x 0.75 x 1.15 hours
\* = 144.9 minutes
C22_Witness ==
  /\ ValidPlan
  /\ inputs.meatType = "turkey" /\ inputs.isSpatchcock = TRUE
  /\ inputs.weight = 2 * 8 /\ inputs.temp = 275
  /\ inputs.wrapStrategy = "foil" /\ inputs.spritzEnabled = FALSE
  /\ plan.finishCook - plan.startCook = 1449 * 6000

\* C23: wrapTime is startCook plus totalCookMinutes x wrapFactor, where
\* wrapFactor is the profile's stallFactor, plus (wrapTemp - 160) x 0.005
\* only for a wrap strategy other than 'none' and a wrapTemp over 160; with
\* 'none' wrapTime is still reported, at startCook plus totalCookMinutes x
\* stallFactor whatever wrapTemp is.
C23_WrapTime ==
  ValidPlan =>
    LET stall  == MEAT_PROFILES[inputs.meatType].stallFactor
        factor == IF inputs.wrapStrategy # "none" /\ inputs.wrapTemp > 160
                  THEN 10 * stall + 5 * (inputs.wrapTemp - 160)
                  ELSE 10 * stall
        until  == FloorMulDiv(TotalCookMinutes(inputs), factor, 1000)
    IN  /\ plan.wrapTime # InvalidDate
        /\ QPerMs * (plan.wrapTime - plan.startCook) <= until
        /\ QPerMs * (plan.wrapTime - plan.startCook) > until - QPerMs
        /\ inputs.wrapStrategy = "none" =>
             \A t \in StoredWrapTemps : WrapTimeAt(t) = plan.wrapTime

\* an unwrapped 8 lb chicken at 250 F with wrapTemp 200: 6 hours x 1.15 =
\* 414 minutes, the stall point at 0.85 of it
C23_Witness ==
  /\ ValidPlan
  /\ inputs.meatType = "chicken" /\ inputs.weight = 2 * 8 /\ inputs.temp = 250
  /\ inputs.isSpatchcock = FALSE
  /\ inputs.wrapStrategy = "none" /\ inputs.wrapTemp = 200
  /\ inputs.spritzEnabled = FALSE
  /\ plan.wrapTime - plan.startCook = 3519 * 6000

\* C24: with spritz enabled and spritzCount > 0 the plan has a spritz window
\* with start = startCook + spritzStart, end = wrapTime for a wrap strategy
\* other than 'none' and end = finishCook - 60 minutes for 'none', count =
\* spritzCount and the type of the meat's profile; with spritzCount = 0 the
\* plan has no window, not one of zero length.
C24_SpritzWindow ==
  (ValidPlan /\ inputs.spritzEnabled = TRUE /\ inputs.spritzInterval > 0) =>
    LET count == IF PreTaxWindow > 0
                 THEN PreTaxWindow \div (4000 * inputs.spritzInterval)
                 ELSE 0
    IN  /\ count > 0 =>
             /\ ~plan.spritzWindow.isNull
             /\ plan.spritzWindow.start
                  = plan.startCook + MsPerMinute * inputs.spritzStart
             /\ plan.spritzWindow.end
                  = (IF inputs.wrapStrategy # "none"
                     THEN plan.wrapTime
                     ELSE plan.finishCook - 60 * MsPerMinute)
             /\ plan.spritzWindow.count = count
             /\ plan.spritzWindow.type = MEAT_PROFILES[inputs.meatType].spritz.type
        /\ count = 0 => plan.spritzWindow = NoWindow

\* an unwrapped turkey whose window ends an hour before the cook does
C24_Witness ==
  /\ ValidPlan
  /\ inputs.meatType = "turkey" /\ inputs.wrapStrategy = "none"
  /\ inputs.spritzEnabled = TRUE /\ inputs.spritzInterval = 60
  /\ ~plan.spritzWindow.isNull
  /\ plan.spritzWindow.type = "Melted Butter"
  /\ plan.spritzWindow.end = plan.finishCook - MsPerHour
  /\ plan.spritzWindow.end # plan.wrapTime

\* clock readings around 24 hours before the serve time of the plan: a
\* millisecond less than 24 hours to go, 24 hours, a millisecond more
ClocksAround24h ==
  {plan.serve - 24 * MsPerHour + d : d \in {-1, 0, 1}}

\* the plan without its affiliateMode
WithoutMode(p) == [p EXCEPT !.affiliateMode = "-"]

\* C25: the plan's affiliateMode is 'instant' exactly when serve minus now
\* is less than 24 hours, serve times in the past included, and 'planning'
\* otherwise; now influences no other field of the plan and no warning.
C25_AffiliateMode ==
  PlanProduced =>
    /\ plan.affiliateMode
         = (IF plan.serve - now < 24 * MsPerHour THEN "instant" ELSE "planning")
    /\ \A clock \in ClockTimes \cup ClocksAround24h :
         AffiliateMode(inputs, clock)
           = (IF plan.serve - clock < 24 * MsPerHour
              THEN "instant" ELSE "planning")
    /\ \A clock \in ClockTimes :
         WithoutMode(ComputePlan(inputs, clock)) = WithoutMode(plan)
    /\ warnings = Warnings(inputs)

\* a serve time 30 hours in the past
C25_Witness ==
  /\ PlanProduced
  /\ plan.serve - now = 0 - 30 * MsPerHour
  /\ plan.affiliateMode = "instant"

\* C26: the settings are saved on every change of the inputs and the engine
\* does not depend on the save: after every commit the stored settings are
\* the current inputs, and when a save fails the recomputation still runs
\* and gives the plan and warnings it gives when the save succeeds.
C26_SavedAndIndependent ==
  phase # "mounting" =>
    /\ saved.present
    /\ saved.value = inputs
    /\ ~EngineReturnsEarly(inputs) =>
         /\ ~plan.isNull
         /\ warnings = Warnings(inputs)
         /\ phase = "crashed" => RenderThrows(plan)
    /\ EngineReturnsEarly(inputs) => phase = "idle"

\* C27: whenever the plan has a spritz window (spritzInterval > 0), its
\* start is not later than its end: startCook + spritzStart <= wrapTime for
\* a wrapped cook and <= finishCook - 60 minutes for wrapStrategy 'none'.
C27_WindowStartBeforeEnd ==
  (/\ ValidPlan
   /\ inputs.spritzInterval > 0
   /\ ~plan.spritzWindow.isNull)
  => /\ plan.spritzWindow.start <= plan.spritzWindow.end
     /\ plan.startCook + MsPerMinute * inputs.spritzStart
          <= (IF inputs.wrapStrategy # "none"
              THEN plan.wrapTime
              ELSE plan.finishCook - 60 * MsPerMinute)

\* C28: for every meat type and every two set temperatures t1 < t2 that the
\* Set Temp select offers for it, with the other inputs fixed, the cook at
\* t2 is not longer than at t1: no offered temperature falls back to rate
\* 1.0 and lengthens the cook.
C28_HotterIsNotSlower ==
  (ValidPlan /\ SensibleInputs) =>
    \A t2 \in TempOptions(inputs.meatType) :
       t2 > inputs.temp =>
         LET hotter == [inputs EXCEPT !.temp = t2]
         IN  /\ Rate(hotter) <= Rate(inputs)
             /\ FinishCookTime(hotter) - StartCookTime(hotter)
                  <= plan.finishCook - plan.startCook

\* C29: for every meat type and every prior inputs with a parsable
\* serveTime, the recomputation that follows handleMeatChange produces a
\* plan with an empty warnings list: the defaults a meat change installs
\* trigger no warning rule.
C29_MeatChangeNoWarnings ==
  [][\A type \in MeatTypes :
       (handleMeatChange(type) /\ parseISO(inputs.serveTime) # InvalidDate)
       => (~plan'.isNull /\ warnings' = <<>>)]_vars

\* the fields of the inputs a step changed
Changed == {f \in DOMAIN inputs : inputs'[f] # inputs[f]}

\* C30: handleMeatChange leaves serveTime and prepTime as they are, for
\* every meat type and all prior inputs, and every other handler changes
\* only the one field it edits.
C30_Frame ==
  [][/\ \A type \in MeatTypes :
          handleMeatChange(type) =>
            /\ inputs'.serveTime = inputs.serveTime
            /\ inputs'.prepTime = inputs.prepTime
     /\ (\E v \in WeightEntries : SetWeight(v)) => Changed \subseteq {"weight"}
     /\ (\E v \in {225, 250, 275, 300, 325} : SetTemp(v)) => Changed \subseteq {"temp"}
     /\ (\E v \in ServeTimeEntries : SetServeTime(v)) => Changed \subseteq {"serveTime"}
     /\ SetIsSpatchcock => Changed = {"isSpatchcock"}
     /\ SetFatSideUp => Changed = {"fatSideUp"}
     /\ (\E v \in WrapTempEntries : SetWrapTemp(v)) => Changed \subseteq {"wrapTemp"}
     /\ (\E v \in WrapKeys : SetWrapStrategy(v)) => Changed \subseteq {"wrapStrategy"}
     /\ SetSpritzEnabled => Changed = {"spritzEnabled"}
     /\ (\E v \in SpritzStartEntries : SetSpritzStart(v)) => Changed \subseteq {"spritzStart"}
     /\ (\E v \in SpritzIntervalEntries : SetSpritzInterval(v))
          => Changed \subseteq {"spritzInterval"}
     /\ (\E v \in TargetTempEntries : SetTargetTemp(v)) => Changed \subseteq {"targetTemp"}
     /\ (\E v \in RestTimeEntries : SetRestTime(v)) => Changed \subseteq {"restTime"}
     /\ (\E v \in PrepTimeEntries : SetPrepTime(v)) => Changed \subseteq {"prepTime"}
     /\ (ToggleSettings \/ Tick) => Changed = {}]_vars

\* ribs with the defaults of their profile, and the serve time and the prep
\* time of 0 minutes that the user entered
C30_Witness ==
  /\ phase = "idle"
  /\ edits = MaxEdits
  /\ inputs.meatType = "ribs" /\ inputs.weight = 6 /\ inputs.restTime = 15
  /\ inputs.serveTime = ServeT2
  /\ inputs.prepTime = 0
  /\ ~plan.isNull

====
